---- MODULE Spec2Model ----
(***************************************************************************)
(* A model of the three utilities of the repository:                       *)
(*   SQLBuilder.py                  - SQLBuilder.col_selection/where_clause*)
(*   file_creation_modified_date.py - CREATED_TIME / MODIFIED_TIME         *)
(*   general_logger_setup.py        - general_logger and its formatters    *)
(* Text is modelled as a sequence of one-character strings, so that string *)
(* concatenation, separators and case folding are computed, not assumed.   *)
(***************************************************************************)
EXTENDS Integers, Sequences, FiniteSets, TLC

VARIABLES
    \* SQLBuilder instance attributes and the outcome of the last call
    selection_args, selection_text, sel_outcome,
    where_first_arg, where_kwargs, where_text, where_outcome,
    \* file_creation_modified_date: the file system, the local UTC offset,
    \* and the outcome/result of the last CREATED_TIME / MODIFIED_TIME call
    fs, tz_offset, ts_call, ts_outcome, ts_result,
    \* general_logger_setup: logging's registry, opened files, sink outputs
    loggers, files, gl_call, gl_outcome, calls_ok, returned, n_calls,
    emitted, file_out, email_out, last_event, n_events

sqlVars == <<selection_args, selection_text, sel_outcome,
             where_first_arg, where_kwargs, where_text, where_outcome>>
tsVars  == <<fs, tz_offset, ts_call, ts_outcome, ts_result>>
logVars == <<loggers, files, gl_call, gl_outcome, calls_ok, returned, n_calls,
             emitted, file_out, email_out, last_event, n_events>>
vars    == <<sqlVars, tsVars, logVars>>

(***************************************************************************)
(* Generic helpers on sequences                                            *)
(***************************************************************************)
RECURSIVE SeqsUpTo(_, _)
SeqsUpTo(S, n) ==
    IF n = 0 THEN {<<>>}
    ELSE LET shorter == SeqsUpTo(S, n - 1)
         IN  shorter \cup {Append(s, x) : s \in {t \in shorter : Len(t) = n - 1}, x \in S}

RECURSIVE Concat(_)
Concat(ss) == IF ss = <<>> THEN <<>> ELSE Head(ss) \o Concat(Tail(ss))

\* number of positions at which pat occurs in text
CountOcc(pat, text) ==
    Cardinality({i \in 1..Len(text) :
        /\ i + Len(pat) - 1 <= Len(text)
        /\ SubSeq(text, i, i + Len(pat) - 1) = pat})

(***************************************************************************)
(* Bounds of the model                                                     *)
(***************************************************************************)
MaxCols == 4
MaxKw == 3
MaxCalls == 2
MaxEvents == 2

(***************************************************************************)
(* SQLBuilder.py                                                           *)
(***************************************************************************)
SELECT_ == <<"S","E","L","E","C","T"," ">>
WHERE_  == <<"W","H","E","R","E"," ">>
COMMA_SP == <<",", " ">>
SP == <<" ">>
AND_ == <<"A","N","D"," ">>
OR_  == <<"O","R"," ">>
w_and == <<"w","_","a","n","d">>
w_or  == <<"w","_","o","r">>

\* inputs: column names
ColA == <<"i","d">>
ColB == <<"Q","T","Y">>
ColC == <<"n","o","t","e","s">>
ColNames == {ColA, ColB, ColC}
ColumnSeqs == SeqsUpTo(ColNames, MaxCols)

\* the module-level example, lines 39-40
EX_DATETIME  == <<"D","A","T","E","T","I","M","E">>
EX_ARG_WORKS == <<"A","R","G","_","W","O","R","K","S">>
EX_LOCATION  == <<"L","O","C","A","T","I","O","N">>
EX_CHECK2    == <<"C","H","E","C","K","2">>
ExampleCols  == <<EX_DATETIME, EX_ARG_WORKS, EX_LOCATION, EX_CHECK2, EX_ARG_WORKS>>
ExampleBase  == <<"M","A","T","E","R"," ","="," ","'","H","o","w","d","y"," ",
                  "P","a","r","d","n","e","r","'">>
ExampleFog   == <<"f","o","g"," ","="," ","'","l","o","w","'">>
ExampleLoc   == <<"L","O","C","A","T","I","O","N"," ","="," ","1">>
ExampleKwargs == << <<w_and, ExampleFog>>, <<w_or, ExampleLoc>> >>

\* inputs: keyword names and predicates
K_W_AND == <<"W","_","A","N","D">>
K_w_Or  == <<"w","_","O","r">>
K_w_xor == <<"w","_","x","o","r">>
KwKeys == {w_and, w_or, K_W_AND, K_w_Or, K_w_xor}
PredP == <<"b"," ","<"," ","2">>
Preds == {PredP}
Bases == {<<>>, <<"x"," ","=","0">>}

\* **where_kwargs: an ordered mapping, keys pairwise distinct
DistinctKeys(kw) == \A i, j \in 1..Len(kw) : i # j => kw[i][1] # kw[j][1]
KwargSeqs == {kw \in SeqsUpTo(KwKeys \X Preds, MaxKw) : DistinctKeys(kw)}

\* str.lower()
UPPER == <<"A","B","C","D","E","F","G","H","I","J","K","L","M",
           "N","O","P","Q","R","S","T","U","V","W","X","Y","Z">>
LOWER == <<"a","b","c","d","e","f","g","h","i","j","k","l","m",
           "n","o","p","q","r","s","t","u","v","w","x","y","z">>
LowerChar(c) ==
    IF \E i \in 1..Len(UPPER) : UPPER[i] = c
    THEN LOWER[CHOOSE i \in 1..Len(UPPER) : UPPER[i] = c]
    ELSE c
lower(s) == [i \in 1..Len(s) |-> LowerChar(s[i])]

\* a slice that keeps the last argument (selection_args[:] for [:-1])
AllButLast_all(args) == args

\* selection_args[:-1]
AllButLast(args) == IF Len(args) = 0 THEN <<>> ELSE SubSeq(args, 1, Len(args) - 1)

\* the loop with the blank of the separator dropped (f'{arg},')
RECURSIVE selection_loop_nosep(_, _)
selection_loop_nosep(text, args) ==
    IF args = <<>> THEN text
    ELSE selection_loop_nosep(text \o Head(args) \o <<",">>, Tail(args))

\* lines 18-19: for arg in ...: self.selection_text += f'{arg}, '
RECURSIVE selection_loop(_, _)
selection_loop(text, args) ==
    IF args = <<>> THEN text
    ELSE selection_loop(text \o Head(args) \o COMMA_SP, Tail(args))

\* the last argument appended only when there is one (no IndexError)
col_selection_result_guarded(args) ==
    IF Len(args) = 0
    THEN [text |-> SELECT_, outcome |-> "ok"]
    ELSE [text |-> selection_loop(SELECT_, AllButLast(args)) \o args[Len(args)],
          outcome |-> "ok"]

\* lines 17-21: the text built and whether indexing [-1] raised
col_selection_result(args) ==
    LET looped == selection_loop(SELECT_, AllButLast(args))
    IN  IF Len(args) = 0
        THEN [text |-> looped, outcome |-> "IndexError"]
        ELSE [text |-> looped \o args[Len(args)], outcome |-> "ok"]

col_selection(args) ==
    /\ selection_args' = args
    /\ selection_text' = col_selection_result(args).text
    /\ sel_outcome' = col_selection_result(args).outcome
    /\ UNCHANGED <<where_first_arg, where_kwargs, where_text, where_outcome>>
    /\ UNCHANGED <<tsVars, logVars>>

\* the loop comparing the key as given, without .lower()
RECURSIVE where_loop_nolower(_, _)
where_loop_nolower(text, kw) ==
    IF kw = <<>> THEN text
    ELSE LET key == Head(kw)[1]
             value == Head(kw)[2]
             next == IF key = w_and THEN text \o AND_ \o value \o SP
                     ELSE IF key = w_or THEN text \o OR_ \o value \o SP
                     ELSE text
         IN  where_loop_nolower(next, Tail(kw))

\* lines 31-35: the loop over where_kwargs.items()
RECURSIVE where_loop(_, _)
where_loop(text, kw) ==
    IF kw = <<>> THEN text
    ELSE LET key == Head(kw)[1]
             value == Head(kw)[2]
             next == IF lower(key) = w_and THEN text \o AND_ \o value \o SP
                     ELSE IF lower(key) = w_or THEN text \o OR_ \o value \o SP
                     ELSE text
         IN  where_loop(next, Tail(kw))

\* lines 30-35
where_clause_text(first_arg, kw) == where_loop(WHERE_ \o first_arg \o SP, kw)

where_clause(first_arg, kw) ==
    /\ where_kwargs' = kw
    /\ where_first_arg' = first_arg
    /\ where_text' = where_clause_text(first_arg, kw)
    /\ where_outcome' = "ok"
    /\ UNCHANGED <<selection_args, selection_text, sel_outcome>>
    /\ UNCHANGED <<tsVars, logVars>>

CallColSelection == \E args \in ColumnSeqs : col_selection(args)
CallWhereClause == \E b \in Bases, kw \in KwargSeqs : where_clause(b, kw)
ExampleColSelection == col_selection(ExampleCols)
ExampleWhereClause == where_clause(ExampleBase, ExampleKwargs)

(***************************************************************************)
(* file_creation_modified_date.py                                          *)
(***************************************************************************)
\* names bound in the module's namespace when the lambdas run:
\* line 5 (from datetime import datetime), line 6 (import functools),
\* lines 10 and 16 (the two partials)
ModuleGlobals == {"datetime", "functools", "CREATED_TIME", "MODIFIED_TIME"}

\* global names the lambda body looks up, in evaluation order (lines 11-12):
\* datetime.date, datetime.strptime, time.ctime, os.path.getctime
LambdaNames == <<"datetime", "datetime", "time", "os">>

\* inputs: paths, OS-reported timestamps (epoch seconds) and UTC offsets
Paths == {"a.txt", "b.txt"}
Epochs == {86399, 1706666400, 1709251199}
TzOffsets == {0, -18000}
NoFile == [exists |-> FALSE, ctime |-> 0, mtime |-> 0]
Stats == {NoFile} \cup [exists : {TRUE}, ctime : Epochs, mtime : Epochs]

WDAYS == <<"Thu", "Fri", "Sat", "Sun", "Mon", "Tue", "Wed">>
MONTHS == <<"Jan", "Feb", "Mar", "Apr", "May", "Jun",
            "Jul", "Aug", "Sep", "Oct", "Nov", "Dec">>
DIGITS == <<"0", "1", "2", "3", "4", "5", "6", "7", "8", "9">>

\* the proleptic Gregorian date of a day number counted from 1970-01-01
CivilFromDays(days) ==
    LET z   == days + 719468
        era == z \div 146097
        doe == z - era * 146097
        yoe == (doe - doe \div 1460 + doe \div 36524 - doe \div 146096) \div 365
        doy == doe - (365 * yoe + yoe \div 4 - yoe \div 100)
        mp  == (5 * doy + 2) \div 153
        d   == doy - (153 * mp + 2) \div 5 + 1
        m   == IF mp < 10 THEN mp + 3 ELSE mp - 9
        y   == yoe + era * 400 + (IF m <= 2 THEN 1 ELSE 0)
    IN  [year |-> y, month |-> m, day |-> d]

\* time.ctime(secs): the fields of 'Wed Jan 31 12:00:00 2024' in local time
ctime(secs) ==
    LET local == secs + tz_offset
        days  == local \div 86400
        rem   == local % 86400
        civil == CivilFromDays(days)
    IN  <<WDAYS[(days % 7) + 1], MONTHS[civil.month], civil.day,
          rem \div 3600, (rem % 3600) \div 60, rem % 60, civil.year>>

\* datetime.strptime(text, '%a %b %d %H:%M:%S %Y')
strptime(fields) ==
    [year |-> fields[7],
     month |-> CHOOSE m \in 1..12 : MONTHS[m] = fields[2],
     day |-> fields[3],
     hour |-> fields[4], minute |-> fields[5], second |-> fields[6]]

\* datetime.date(dt): the time of day is dropped
date(dt) == [year |-> dt.year, month |-> dt.month, day |-> dt.day]

\* zero-padded decimal rendering of n in w digits
RECURSIVE Pad(_, _)
Pad(n, w) == IF w = 0 THEN <<>> ELSE Pad(n \div 10, w - 1) \o <<DIGITS[(n % 10) + 1]>>

\* str(date): 'YYYY-MM-DD'
date_str(d) == Pad(d.year, 4) \o <<"-">> \o Pad(d.month, 2) \o <<"-">> \o Pad(d.day, 2)

\* os.path.getctime / os.path.getmtime
getctime(a) == fs[a].ctime
getmtime(a) == fs[a].mtime

UnboundNames == {i \in 1..Len(LambdaNames) : LambdaNames[i] \notin ModuleGlobals}

\* lines 11-12 and 17-18: the lambda body, kind is "ctime" or "mtime"
timestamp_lambda(kind, a) ==
    IF UnboundNames # {}
    THEN [outcome |-> "NameError", value |-> <<>>]
    ELSE IF ~fs[a].exists
    THEN [outcome |-> "FileNotFoundError", value |-> <<>>]
    ELSE [outcome |-> "ok",
          value |-> date_str(date(strptime(ctime(
                        IF kind = "ctime" THEN getctime(a) ELSE getmtime(a)))))]

CREATED_TIME(a) ==
    /\ ts_call' = [fn |-> "CREATED_TIME", path |-> a]
    /\ ts_outcome' = timestamp_lambda("ctime", a).outcome
    /\ ts_result' = timestamp_lambda("ctime", a).value
    /\ UNCHANGED <<fs, tz_offset, sqlVars, logVars>>

MODIFIED_TIME(a) ==
    /\ ts_call' = [fn |-> "MODIFIED_TIME", path |-> a]
    /\ ts_outcome' = timestamp_lambda("mtime", a).outcome
    /\ ts_result' = timestamp_lambda("mtime", a).value
    /\ UNCHANGED <<fs, tz_offset, sqlVars, logVars>>

CallCreatedTime == \E a \in Paths : CREATED_TIME(a)
CallModifiedTime == \E a \in Paths : MODIFIED_TIME(a)

(***************************************************************************)
(* general_logger_setup.py                                                 *)
(***************************************************************************)
\* logging's numeric severities, the keys of CustomTerminalFormat.FORMATS
DEBUG == 10
INFO == 20
WARNING == 30
ERROR == 40
CRITICAL == 50
Levels == {DEBUG, INFO, WARNING, ERROR, CRITICAL}

\* inputs
LoggerNames == {"general_log", "app"}
FileTypes == {"log", "json", "none"}
LogPaths == {"run"}
\* the extra= fields an event may carry: none (a plain event), or 'names'
Extras == {{}, {"names"}}

\* attributes of a LogRecord once getMessage() and formatTime() have run
RecordAttrs == {"name", "msg", "args", "levelname", "levelno", "pathname",
                "filename", "module", "exc_info", "exc_text", "stack_info",
                "lineno", "funcName", "created", "msecs", "relativeCreated",
                "thread", "threadName", "process", "processName",
                "message", "asctime"}

\* lines 73-79: the %(field)s references of FORMATS[levelno]; FORMATS.get
\* gives None for any other level and logging.Formatter(None) is '%(message)s'
TerminalFields(levelno) ==
    IF levelno \in Levels
    THEN {"levelname", "asctime", "names", "message"}
    ELSE {"message"}

\* lines 157-160
LogfileFields == {"asctime", "name", "levelname", "message"}

\* lines 166-177: the values of fmt_dict, looked up in record.__dict__ (line 41)
JsonFields == {"levelname", "message", "name", "processName", "process",
               "threadName", "thread", "asctime"}

FormatFields(formatter, levelno) ==
    CASE formatter = "CustomTerminalFormat" -> TerminalFields(levelno)
      [] formatter = "logfile_format" -> LogfileFields
      [] formatter = "JsonFormatter" -> JsonFields
      [] OTHER -> {"message"}

\* formatting succeeds iff every referenced field is an attribute of the record
FormatOk(h, levelno, extra) ==
    FormatFields(h.formatter, levelno) \subseteq (RecordAttrs \cup extra)

\* lines 155-156 / 164-165 with the formatter of lines 161 / 178
file_handler(mode, path, serial) ==
    [kind |-> "FileHandler", level |-> INFO,
     formatter |-> IF mode = "json" THEN "JsonFormatter" ELSE "logfile_format",
     target |-> <<path, mode>>, serial |-> serial]

\* lines 180-183
terminal_handler(serial) ==
    [kind |-> "StreamHandler", level |-> DEBUG,
     formatter |-> "CustomTerminalFormat",
     target |-> <<"stderr", "">>, serial |-> serial]

\* the email handler with its threshold one severity too low
critical_email_handler_error(serial) ==
    [kind |-> "SMTPHandler", level |-> ERROR,
     formatter |-> "default",
     target |-> <<"localhost", "">>, serial |-> serial]

\* lines 185-192
critical_email_handler(serial) ==
    [kind |-> "SMTPHandler", level |-> CRITICAL,
     formatter |-> "default",
     target |-> <<"localhost", "">>, serial |-> serial]

\* addHandler that keeps one handler per kind and target
addHandler_once(hs, h) ==
    IF \E i \in 1..Len(hs) : hs[i].kind = h.kind /\ hs[i].target = h.target
    THEN hs ELSE Append(hs, h)

\* Logger.addHandler: a handler object is added unless already present
addHandler(hs, h) ==
    IF \E i \in 1..Len(hs) : hs[i] = h THEN hs ELSE Append(hs, h)

\* line 150: logging.getLogger(name) creates the logger on first request
getLogger(name) ==
    IF loggers[name].exists THEN loggers[name]
    ELSE [exists |-> TRUE, inst |-> n_calls + 1, level |-> 0,
          propagate |-> TRUE, handlers |-> <<>>]

\* lines 154, 163: log_file_handler is bound only in these two branches
FileHandlerBound(mode) == mode = "log" \/ mode = "json"

\* lines 194-196
attach(hs, mode, path, serial) ==
    addHandler(addHandler(addHandler(hs,
        file_handler(mode, path, serial)),
        terminal_handler(serial)),
        critical_email_handler(serial))

general_logger(name, mode, path) ==
    LET lg == [getLogger(name) EXCEPT !.level = DEBUG, !.propagate = TRUE]
        serial == n_calls + 1
    IN  /\ n_calls < MaxCalls
        /\ n_calls' = serial
        /\ gl_call' = [logger_name |-> name, log_file_type |-> mode]
        /\ IF FileHandlerBound(mode)
           THEN /\ files' = files \cup {<<path, mode>>}
                /\ loggers' = [loggers EXCEPT ![name] =
                       [lg EXCEPT !.handlers = attach(@, mode, path, serial)]]
                /\ gl_outcome' = "ok"
                /\ calls_ok' = [calls_ok EXCEPT ![name] = @ + 1]
                /\ returned' = [returned EXCEPT ![name] = @ \cup {lg.inst}]
           ELSE /\ files' = files
                /\ loggers' = [loggers EXCEPT ![name] = lg]
                /\ gl_outcome' = "UnboundLocalError"
                /\ UNCHANGED <<calls_ok, returned>>
        /\ UNCHANGED <<emitted, file_out, email_out, last_event, n_events>>
        /\ UNCHANGED <<sqlVars, tsVars>>

\* Logger.callHandlers: the logger's handlers, then its ancestors' while
\* propagate is set; every name modelled here is a child of the root logger
HandlersReached(name) ==
    IF loggers[name].propagate
    THEN loggers[name].handlers \o loggers["root"].handlers
    ELSE loggers[name].handlers

\* Logger.callHandlers: record.levelno >= hdlr.level
Handles(h, levelno) == levelno >= h.level

CountHandled(hs, kind, levelno) ==
    Cardinality({i \in 1..Len(hs) : hs[i].kind = kind /\ Handles(hs[i], levelno)})

CountWritten(hs, kind, levelno, extra) ==
    Cardinality({i \in 1..Len(hs) :
        /\ hs[i].kind = kind
        /\ Handles(hs[i], levelno)
        /\ FormatOk(hs[i], levelno, extra)})

NoCounts == [file |-> 0, console |-> 0, email |-> 0]

\* logger.log(levelno, msg, extra=extra) on a logger returned by general_logger
Emit(name, levelno, extra) ==
    LET hs == HandlersReached(name)
        handled == [file |-> CountHandled(hs, "FileHandler", levelno),
                    console |-> CountHandled(hs, "StreamHandler", levelno),
                    email |-> CountHandled(hs, "SMTPHandler", levelno)]
        written == [file |-> CountWritten(hs, "FileHandler", levelno, extra),
                    console |-> CountWritten(hs, "StreamHandler", levelno, extra),
                    email |-> CountWritten(hs, "SMTPHandler", levelno, extra)]
    IN  /\ calls_ok[name] >= 1
        /\ n_events < MaxEvents
        /\ levelno >= loggers[name].level
        /\ n_events' = n_events + 1
        /\ emitted' = [emitted EXCEPT ![name][levelno] = @ + 1]
        /\ file_out' = [file_out EXCEPT ![name] = @ + written.file]
        /\ email_out' = [email_out EXCEPT ![name] = @ + handled.email]
        /\ last_event' = [name |-> name, levelno |-> levelno, extra |-> extra,
                          after_calls |-> calls_ok[name],
                          handled |-> handled, written |-> written]
        /\ UNCHANGED <<loggers, files, gl_call, gl_outcome, calls_ok, returned, n_calls>>
        /\ UNCHANGED <<sqlVars, tsVars>>

CallGeneralLogger ==
    \E name \in LoggerNames, mode \in FileTypes, path \in LogPaths :
        general_logger(name, mode, path)
EmitEvent ==
    \E name \in LoggerNames, levelno \in Levels, extra \in Extras :
        Emit(name, levelno, extra)

NoLogger == [exists |-> FALSE, inst |-> 0, level |-> 0,
             propagate |-> TRUE, handlers |-> <<>>]
RootLogger == [exists |-> TRUE, inst |-> 0, level |-> WARNING,
               propagate |-> TRUE, handlers |-> <<>>]

(***************************************************************************)
(* Specifications: one per utility (the utilities share no state)          *)
(***************************************************************************)
\* the state after the modules are loaded and one SQLBuilder() is constructed:
\* no attribute set, nothing called, logging's registry holding only the root
InitIdle ==
    /\ selection_args = <<>>
    /\ selection_text = <<>>
    /\ sel_outcome = "uncalled"
    /\ where_first_arg = <<>>
    /\ where_kwargs = <<>>
    /\ where_text = <<>>
    /\ where_outcome = "uncalled"
    /\ fs = [p \in Paths |-> NoFile]
    /\ tz_offset = 0
    /\ ts_call = [fn |-> "none", path |-> "none"]
    /\ ts_outcome = "uncalled"
    /\ ts_result = <<>>
    /\ loggers = [n \in LoggerNames \cup {"root"} |->
                    IF n = "root" THEN RootLogger ELSE NoLogger]
    /\ files = {}
    /\ gl_call = [logger_name |-> "none", log_file_type |-> "none"]
    /\ gl_outcome = "uncalled"
    /\ calls_ok = [n \in LoggerNames |-> 0]
    /\ returned = [n \in LoggerNames |-> {}]
    /\ n_calls = 0
    /\ emitted = [n \in LoggerNames |-> [l \in Levels |-> 0]]
    /\ file_out = [n \in LoggerNames |-> 0]
    /\ email_out = [n \in LoggerNames |-> 0]
    /\ last_event = [name |-> "none", levelno |-> 0, extra |-> {},
                     after_calls |-> 0,
                     handled |-> NoCounts, written |-> NoCounts]
    /\ n_events = 0

\* the same, over every file system and local time zone of the input sets
InitTime ==
    /\ selection_args = <<>>
    /\ selection_text = <<>>
    /\ sel_outcome = "uncalled"
    /\ where_first_arg = <<>>
    /\ where_kwargs = <<>>
    /\ where_text = <<>>
    /\ where_outcome = "uncalled"
    /\ fs \in [Paths -> Stats]
    /\ tz_offset \in TzOffsets
    /\ ts_call = [fn |-> "none", path |-> "none"]
    /\ ts_outcome = "uncalled"
    /\ ts_result = <<>>
    /\ loggers = [n \in LoggerNames \cup {"root"} |->
                    IF n = "root" THEN RootLogger ELSE NoLogger]
    /\ files = {}
    /\ gl_call = [logger_name |-> "none", log_file_type |-> "none"]
    /\ gl_outcome = "uncalled"
    /\ calls_ok = [n \in LoggerNames |-> 0]
    /\ returned = [n \in LoggerNames |-> {}]
    /\ n_calls = 0
    /\ emitted = [n \in LoggerNames |-> [l \in Levels |-> 0]]
    /\ file_out = [n \in LoggerNames |-> 0]
    /\ email_out = [n \in LoggerNames |-> 0]
    /\ last_event = [name |-> "none", levelno |-> 0, extra |-> {},
                     after_calls |-> 0,
                     handled |-> NoCounts, written |-> NoCounts]
    /\ n_events = 0

(***************************************************************************)
(* Specifications: one per operation group (the utilities share no state)  *)
(***************************************************************************)
SelectNext ==
    \/ CallColSelection
    \/ ExampleColSelection
SpecSelect == InitIdle /\ [][SelectNext]_vars

WhereNext ==
    \/ CallWhereClause
    \/ ExampleWhereClause
SpecWhere == InitIdle /\ [][WhereNext]_vars

TimeNext ==
    \/ CallCreatedTime
    \/ CallModifiedTime
SpecTime == InitTime /\ [][TimeNext]_vars

LogNext ==
    \/ CallGeneralLogger
    \/ EmitEvent
SpecLog == InitIdle /\ [][LogNext]_vars

(***************************************************************************)
(* Properties of SQLBuilder (SpecSelect, SpecWhere)                        *)
(***************************************************************************)
\* 'c1, c2, ..., cN' for N >= 1, defined from the head of the sequence
RECURSIVE JoinWith(_, _)
JoinWith(ss, sep) ==
    IF Len(ss) = 1 THEN ss[1] ELSE ss[1] \o sep \o JoinWith(Tail(ss), sep)

SelectClause(cols) == SELECT_ \o JoinWith(cols, COMMA_SP)

RECURSIVE TotalLen(_)
TotalLen(ss) == IF ss = <<>> THEN 0 ELSE Len(Head(ss)) + TotalLen(Tail(ss))

\* 'SELECT DATETIME, ARG_WORKS, LOCATION, CHECK2, ARG_WORKS' (line 46)
ExampleSelectText ==
    <<"S","E","L","E","C","T"," ","D","A","T","E","T","I","M","E",","," ",
      "A","R","G","_","W","O","R","K","S",","," ","L","O","C","A","T","I",
      "O","N",","," ","C","H","E","C","K","2",","," ","A","R","G","_","W",
      "O","R","K","S">>

\* "WHERE MATER = 'Howdy Pardner' AND fog = 'low' OR LOCATION = 1" (line 47)
ExampleWhereText ==
    <<"W","H","E","R","E"," ","M","A","T","E","R"," ","="," ","'","H","o",
      "w","d","y"," ","P","a","r","d","n","e","r","'"," ","A","N","D"," ",
      "f","o","g"," ","="," ","'","l","o","w","'"," ","O","R"," ","L","O",
      "C","A","T","I","O","N"," ","="," ","1">>

\* C1: after col_selection on a non-empty sequence of columns the call has
\* returned normally and selection_text is 'SELECT ' followed by the columns
\* in order joined by ', ': N-1 separators, duplicates kept, nothing trailing;
\* for one column it is 'SELECT c1'; the module's example gives line 46.
C1_SelectionText ==
    (sel_outcome # "uncalled" /\ Len(selection_args) >= 1) =>
        /\ sel_outcome = "ok"
        /\ selection_text = SelectClause(selection_args)
        /\ CountOcc(COMMA_SP, selection_text) = Len(selection_args) - 1
        /\ Len(selection_text) =
              Len(SELECT_) + TotalLen(selection_args) + 2 * (Len(selection_args) - 1)
        /\ (Len(selection_args) = 1 => selection_text = SELECT_ \o selection_args[1])
        /\ (selection_args = ExampleCols => selection_text = ExampleSelectText)

\* a call with a repeated column has returned
C1_Witness ==
    /\ sel_outcome = "ok"
    /\ Len(selection_args) >= 3
    /\ selection_args[1] = selection_args[3]
    /\ selection_args[1] # selection_args[2]

\* C4: col_selection with zero columns fails with an IndexError, and it
\* fails for no other argument tuple.
C4_EmptyRaises ==
    sel_outcome # "uncalled" =>
        (Len(selection_args) = 0 <=> sel_outcome = "IndexError")

C4_Witness == sel_outcome = "IndexError" /\ selection_args = <<>>

\* C10 as stated: once set, selection_text is always the well-formed clause
\* of a non-empty column sequence held in selection_args (a failing call
\* having changed neither attribute).
C10_Original ==
    sel_outcome # "uncalled" =>
        /\ Len(selection_args) >= 1
        /\ selection_text = SelectClause(selection_args)

\* C10 amended: once set, selection_text is decided by the most recent call:
\* the well-formed clause of its columns when it succeeded, and the bare
\* prefix 'SELECT ' with selection_args = () when it failed on no columns.
C10_Amended ==
    sel_outcome # "uncalled" =>
        \/ /\ sel_outcome = "ok"
           /\ Len(selection_args) >= 1
           /\ selection_text = SelectClause(selection_args)
        \/ /\ sel_outcome = "IndexError"
           /\ selection_args = <<>>
           /\ selection_text = SELECT_

C10_Witness ==
    /\ sel_outcome = "IndexError"
    /\ selection_text = SELECT_
    /\ selection_args = <<>>

\* two characters are the same letter in different case
CasePair(c, d) ==
    \E i \in 1..Len(UPPER) : {c, d} = {UPPER[i], LOWER[i]}
SameIgnoringCase(a, b) ==
    /\ Len(a) = Len(b)
    /\ \A i \in 1..Len(a) : a[i] = b[i] \/ CasePair(a[i], b[i])
IsAndKey(k) == SameIgnoringCase(k, w_and)
IsOrKey(k) == SameIgnoringCase(k, w_or)
RemoveAt(seq, i) == SubSeq(seq, 1, i - 1) \o SubSeq(seq, i + 1, Len(seq))

\* C2's text: ' AND p' / ' OR p' after the base, nothing after the last
WhereClauseTight(base, kw) ==
    WHERE_ \o base \o
    Concat([i \in 1..Len(kw) |->
        IF kw[i][1] = w_and THEN <<" ">> \o <<"A","N","D"," ">> \o kw[i][2]
        ELSE <<" ">> \o <<"O","R"," ">> \o kw[i][2]])

\* what the loop leaves: every fragment followed by one blank
WhereClauseLoose(base, kw) ==
    WHERE_ \o base \o SP \o
    Concat([i \in 1..Len(kw) |->
        IF IsAndKey(kw[i][1]) THEN AND_ \o kw[i][2] \o SP
        ELSE IF IsOrKey(kw[i][1]) THEN OR_ \o kw[i][2] \o SP
        ELSE <<>>])

\* C2: for a mapping of w_and / w_or entries where_text is exactly 'WHERE ' +
\* base followed by ' AND ' + predicate or ' OR ' + predicate per entry in
\* order, with nothing after the last predicate; the example gives line 47.
C2_Original ==
    (/\ where_outcome # "uncalled"
     /\ \A i \in 1..Len(where_kwargs) : where_kwargs[i][1] \in {w_and, w_or}) =>
        /\ where_text = WhereClauseTight(where_first_arg, where_kwargs)
        /\ (where_first_arg = ExampleBase /\ where_kwargs = ExampleKwargs
               => where_text = ExampleWhereText)

\* C3: where_clause never raises; an entry whose key is neither marker in
\* any letter case leaves where_text as if the entry were absent, and a key
\* that differs from 'w_and' / 'w_or' only in case connects like the marker.
C3_UnknownKeyIgnored ==
    where_outcome # "uncalled" =>
        /\ where_outcome = "ok"
        /\ \A i \in 1..Len(where_kwargs) :
              (~IsAndKey(where_kwargs[i][1]) /\ ~IsOrKey(where_kwargs[i][1])) =>
                  where_text = where_clause_text(where_first_arg,
                                                 RemoveAt(where_kwargs, i))
        /\ where_text = WhereClauseLoose(where_first_arg, where_kwargs)

\* an unknown key between two case variants of the markers
C3_Witness ==
    /\ where_outcome = "ok"
    /\ \E i, j \in 1..Len(where_kwargs) :
          /\ where_kwargs[i][1] = K_w_xor
          /\ where_kwargs[j][1] \in {K_W_AND, K_w_Or}

(***************************************************************************)
(* Properties of CREATED_TIME / MODIFIED_TIME (SpecTime)                   *)
(***************************************************************************)
\* 'YYYY-MM-DD' of the local calendar day that holds epoch second secs
LocalDateText(secs) == date_str(CivilFromDays((secs + tz_offset) \div 86400))

\* C5: for an existing path the call returns normally the 'YYYY-MM-DD' text
\* of the local calendar date of the file's creation (CREATED_TIME) or
\* modification (MODIFIED_TIME) timestamp.
C5_Original ==
    (ts_outcome # "uncalled" /\ fs[ts_call.path].exists) =>
        /\ ts_outcome = "ok"
        /\ ts_result = LocalDateText(IF ts_call.fn = "CREATED_TIME"
                                     THEN fs[ts_call.path].ctime
                                     ELSE fs[ts_call.path].mtime)

(***************************************************************************)
(* Properties of general_logger (SpecLog)                                  *)
(***************************************************************************)
KindCount(hs, kind) == Cardinality({i \in 1..Len(hs) : hs[i].kind = kind})

\* C6: a call whose log_file_type is neither 'log' nor 'json' returns a
\* logger with a console sink and an email sink attached, and opens no file
\* for that type.
C6_Original ==
    (gl_outcome # "uncalled" /\ ~FileHandlerBound(gl_call.log_file_type)) =>
        /\ gl_outcome = "ok"
        /\ KindCount(loggers[gl_call.logger_name].handlers, "StreamHandler") >= 1
        /\ KindCount(loggers[gl_call.logger_name].handlers, "SMTPHandler") >= 1
        /\ \A f \in files : f[2] # gl_call.log_file_type

\* C7: on a logger configured by one general_logger call, a plain event (no
\* extra fields) of any of the five severities produces exactly one
\* formatted console line.
C7_Original ==
    (/\ last_event.name # "none"
     /\ last_event.after_calls = 1
     /\ last_event.extra = {}) =>
        last_event.written.console = 1

InfoOrAbove(n) ==
    emitted[n][INFO] + emitted[n][WARNING] + emitted[n][ERROR] + emitted[n][CRITICAL]

\* C8: on a logger configured by one successful general_logger call (file
\* mode 'log' or 'json'), after any sequence of events the file sink has
\* received one record per event of severity INFO or above and none for
\* DEBUG events, and the email sink has been triggered once per CRITICAL
\* event and for no other; each single event obeys the same counts.
C8_FileAndEmailCounts ==
    /\ \A n \in LoggerNames :
          calls_ok[n] = 1 =>
              /\ file_out[n] = InfoOrAbove(n)
              /\ email_out[n] = emitted[n][CRITICAL]
    /\ (last_event.name # "none" /\ last_event.after_calls = 1) =>
          /\ last_event.written.file = (IF last_event.levelno >= INFO THEN 1 ELSE 0)
          /\ last_event.handled.email = (IF last_event.levelno = CRITICAL THEN 1 ELSE 0)

\* one configured logger has taken a DEBUG event and a CRITICAL event
C8_Witness ==
    \E n \in LoggerNames :
        /\ calls_ok[n] = 1
        /\ emitted[n][DEBUG] = 1
        /\ emitted[n][CRITICAL] = 1
        /\ file_out[n] = 1
        /\ email_out[n] = 1

\* C9: every successful call for a name returns the one logger of that name,
\* which after k successful calls holds k file, k console and k email
\* handlers; an event emitted after k calls is handed k times to each kind
\* of handler whose threshold it meets and to no other.
C9_SinksAccumulate ==
    /\ \A n \in LoggerNames :
          /\ Cardinality(returned[n]) <= 1
          /\ calls_ok[n] >= 1 => returned[n] = {loggers[n].inst}
          /\ KindCount(loggers[n].handlers, "FileHandler") = calls_ok[n]
          /\ KindCount(loggers[n].handlers, "StreamHandler") = calls_ok[n]
          /\ KindCount(loggers[n].handlers, "SMTPHandler") = calls_ok[n]
    /\ last_event.name # "none" =>
          /\ last_event.after_calls >= 1
          /\ last_event.handled.console = last_event.after_calls
          /\ last_event.handled.file =
                (IF last_event.levelno >= INFO THEN last_event.after_calls ELSE 0)
          /\ last_event.handled.email =
                (IF last_event.levelno >= CRITICAL THEN last_event.after_calls ELSE 0)

\* a CRITICAL event emitted after two calls for the same name
C9_Witness ==
    /\ last_event.name # "none"
    /\ last_event.after_calls = 2
    /\ last_event.levelno = CRITICAL
    /\ last_event.handled = [file |-> 2, console |-> 2, email |-> 2]
    /\ Len(loggers[last_event.name].handlers) = 6

====
